---------------------------- MODULE Spec2Model ----------------------------
(***************************************************************************)
(* State-machine model of the BinaryArtGenerator component                 *)
(* (src/components/BinaryArtGenerator.tsx): the React state of the         *)
(* component, the image-upload callbacks, the deferred generation pass and *)
(* the exporter, together with the arithmetic of the bitmap -> glyph       *)
(* pipeline.                                                               *)
(***************************************************************************)
EXTENDS Integers, Sequences, FiniteSets, TLC

(***************************************************************************)
(* Program constants.                                                      *)
(***************************************************************************)
MIN_WEIGHT == 300
MAX_WEIGHT == 700
WEIGHT_RANGE == MAX_WEIGHT - MIN_WEIGHT
NUM_CHAR_LEVELS == 14
\* the range input of the resolution slider: min, max, step
SLIDER_MIN == 50
SLIDER_MAX == 300
SLIDER_STEP == 10
\* initial value of the resolution state
DEFAULT_RESOLUTION == 100

(***************************************************************************)
(* Bounds of the model.                                                    *)
(***************************************************************************)
\* how many slider positions (counted from SLIDER_MIN) the user visits
MaxSliderSteps == 0
\* how many file reads (FileReader + Image decode) may be in flight at once
MaxLoads == 1
\* how many times the user changes a setting (character box, invert
\* checkbox, slider) in a session
MaxEdits == 1

(***************************************************************************)
(* IEEE-754 binary64 arithmetic, as far as lines 70-71 need it.            *)
(* A positive double is [m, e]: m is its 53-bit significand, held as       *)
(* NUM_LIMBS digits of LIMB_BITS bits each, least significant first        *)
(* (53 = 4 * 11 + 9, so the top digit has 9 bits and its top bit is set),  *)
(* and e is the binary exponent of the leading bit: the value is           *)
(* M * 2^(e - 52) with M the integer m denotes.  Every operation rounds to *)
(* nearest, ties to even, as JavaScript numbers do.                        *)
(***************************************************************************)
MANT_BITS == 53
LIMB_BITS == 11
NUM_LIMBS == 5

Max(a, b) == IF a >= b THEN a ELSE b
Min(a, b) == IF a <= b THEN a ELSE b

PowersOfTwo ==
    << 1, 2, 4, 8, 16, 32, 64, 128, 256, 512, 1024, 2048, 4096, 8192, 16384,
       32768, 65536, 131072, 262144, 524288, 1048576, 2097152, 4194304,
       8388608, 16777216, 33554432, 67108864, 134217728, 268435456,
       536870912, 1073741824 >>
Pow2(n) == IF n <= 0 THEN 1 ELSE PowersOfTwo[n + 1]
LimbBase == Pow2(LIMB_BITS)

\* number of binary digits of k >= 1
BitLen(k) == CHOOSE n \in 1..Len(PowersOfTwo) :
                 Pow2(n - 1) <= k /\ (n = Len(PowersOfTwo) \/ k < Pow2(n))

\* digit i (0 the least significant) of a digit string, 0 outside it
Limb(P, i) == IF i >= 0 /\ i < Len(P) THEN P[i + 1] ELSE 0

\* bit j (0 the least significant) of the integer a digit string denotes
Bit(P, j) == (Limb(P, j \div LIMB_BITS) \div Pow2(j % LIMB_BITS)) % 2

\* digit i of the integer P shifted right by s bits
ShiftedLimb(P, s, i) ==
    LET q == s \div LIMB_BITS
        t == s % LIMB_BITS
    IN  (Limb(P, i + q) \div Pow2(t))
          + (Limb(P, i + q + 1) % Pow2(t)) * Pow2(LIMB_BITS - t)

RECURSIVE ExpUp(_, _, _)
ExpUp(a, b, e) == IF e >= 0 /\ a >= 2 * b THEN ExpUp(a, 2 * b, e + 1) ELSE e
RECURSIVE ExpDown(_, _, _)
ExpDown(a, b, e) == IF e <= 0 /\ a < b THEN ExpDown(2 * a, b, e - 1) ELSE e
\* the e with 2^e <= a/b < 2^(e+1), for a, b > 0
Exponent(a, b) == IF a >= b THEN ExpUp(a, b, 0) ELSE ExpDown(a, b, 0)

\* significand + 1 unit in the last place
IncM(m, e) ==
    LET full(i) == m[i] = (IF i = NUM_LIMBS
                           THEN Pow2(MANT_BITS - (NUM_LIMBS - 1) * LIMB_BITS)
                           ELSE LimbBase) - 1
    IN  IF \A i \in 1..NUM_LIMBS : full(i)
        THEN [m |-> <<0, 0, 0, 0,
                       Pow2(MANT_BITS - (NUM_LIMBS - 1) * LIMB_BITS - 1)>>,
              e |-> e + 1]
        ELSE LET k == CHOOSE i \in 1..NUM_LIMBS :
                          ~full(i) /\ \A j \in 1..(i - 1) : full(j)
                 d(i) == IF i < k THEN 0
                         ELSE IF i = k THEN m[i] + 1 ELSE m[i]
             IN  [m |-> <<d(1), d(2), d(3), d(4), d(5)>>, e |-> e]

RECURSIVE DivLimbs(_, _, _)
\* the next n quotient digits of r/B (0 <= r < B < 2^20), least significant first
DivLimbs(r, B, n) ==
    IF n = 0 THEN <<>>
    ELSE DivLimbs((r * LimbBase) % B, B, n - 1) \o <<(r * LimbBase) \div B>>
RECURSIVE DivRem(_, _, _)
\* the remainder left after those digits
DivRem(r, B, n) ==
    IF n = 0 THEN r ELSE DivRem((r * LimbBase) % B, B, n - 1)

\* a / b of two positive integers, as the double division a / b
FDiv(a, b) ==
    LET e    == Exponent(a, b)
        A    == a * Pow2(0 - e)
        B    == b * Pow2(e)
        \* 1 <= A/B < 2: the top digit is floor(A * 2^8 / B)
        top  == A * Pow2(MANT_BITS - (NUM_LIMBS - 1) * LIMB_BITS - 1)
        m    == DivLimbs(top % B, B, NUM_LIMBS - 1) \o <<top \div B>>
        rem  == DivRem(top % B, B, NUM_LIMBS - 1)
    IN  IF 2 * rem > B \/ (2 * rem = B /\ m[1] % 2 = 1)
        THEN IncM(m, e) ELSE [m |-> m, e |-> e]

\* coefficient k of the product of two digit strings, A of NUM_LIMBS digits
Coefficient(A, B, k) ==
    Limb(A, 0) * Limb(B, k) + Limb(A, 1) * Limb(B, k - 1)
      + Limb(A, 2) * Limb(B, k - 2) + Limb(A, 3) * Limb(B, k - 3)
      + Limb(A, 4) * Limb(B, k - 4)

RECURSIVE CarryLimbs(_, _, _, _, _)
\* digits k .. n-1 of the product, carries propagated, least significant first
CarryLimbs(A, B, k, n, carry) ==
    IF carry >= 0 /\ k = n THEN <<carry>>
    ELSE LET t == Coefficient(A, B, k) + carry
         IN  <<t % LimbBase>> \o CarryLimbs(A, B, k + 1, n, t \div LimbBase)

\* exact product of two digit strings, A of NUM_LIMBS digits
MulLimbs(A, B) == CarryLimbs(A, B, 0, Len(A) + Len(B) - 1, 0)

\* the double nearest to the integer P * 2^lsb, P a digit string of at least
\* MANT_BITS bits
RoundInt(P, lsb) ==
    LET top  == CHOOSE i \in 1..Len(P) :
                    P[i] # 0 /\ \A j \in (i + 1)..Len(P) : P[j] = 0
        L    == LIMB_BITS * (top - 1) + BitLen(P[top])
        s    == L - MANT_BITS
        m    == << ShiftedLimb(P, s, 0), ShiftedLimb(P, s, 1),
                   ShiftedLimb(P, s, 2), ShiftedLimb(P, s, 3),
                   ShiftedLimb(P, s, 4) >>
        e    == lsb + L - 1
        up   == /\ s >= 1
                /\ Bit(P, s - 1) = 1
                /\ \/ \E j \in 0..(s - 2) : Bit(P, j) = 1
                   \/ Bit(P, s) = 1
    IN  IF up THEN IncM(m, e) ELSE [m |-> m, e |-> e]

\* the digits of a natural number below 2^31
ToLimbs(n) == << n % LimbBase, (n \div LimbBase) % LimbBase,
                 n \div (LimbBase * LimbBase) >>

\* a normalised double: the leading bit of the significand is set
IsNormal(x) ==
    x.m[NUM_LIMBS] >= Pow2(MANT_BITS - (NUM_LIMBS - 1) * LIMB_BITS - 1)
FZero == [m |-> <<0, 0, 0, 0, 0>>, e |-> 0]

\* the double product x * n, n a positive integer
FMulInt(x, n) ==
    IF IsNormal(x) /\ n > 0
    THEN RoundInt(MulLimbs(x.m, ToLimbs(n)), x.e - (MANT_BITS - 1))
    ELSE FZero

\* the double product x * y
FMul(x, y) ==
    IF IsNormal(x) /\ IsNormal(y)
    THEN RoundInt(MulLimbs(x.m, y.m), x.e + y.e - 2 * (MANT_BITS - 1))
    ELSE FZero

\* Math.floor of a non-negative double below 2^31
FFloor(x) ==
    IF ~IsNormal(x) \/ x.e < 0 THEN 0
    ELSE LET s == MANT_BITS - 1 - x.e
         IN  ShiftedLimb(x.m, s, 0) + LimbBase * ShiftedLimb(x.m, s, 1)
               + LimbBase * LimbBase * ShiftedLimb(x.m, s, 2)

\* the literal 0.55: the double nearest to 55/100
ASPECT_NUM == 55
ASPECT_DEN == 100
AspectCorrection == FDiv(ASPECT_NUM, ASPECT_DEN)

(***************************************************************************)
(* Inputs of the model: the files a user may pick, the texts typed into    *)
(* the character box, the slider positions, the pixels probed.             *)
(***************************************************************************)
\* no image: the null of originalImage, and a canvas nothing was drawn on
NoImage == [name |-> "none", w |-> 0, h |-> 0, decodes |-> FALSE]

\* The files offered to the file input.  w and h are naturalWidth and
\* naturalHeight of the decoded image; "vector" is an image without natural
\* dimensions (an SVG with no width, height or viewBox), for which both are 0;
\* "corrupt" is a file the Image element cannot decode (img.onerror).
Files ==
    { [name |-> "strip",   w |-> 1000, h |-> 1, decodes |-> TRUE],
      [name |-> "banner",  w |-> 100,  h |-> 4, decodes |-> TRUE],
      [name |-> "vector",  w |-> 0,    h |-> 0, decodes |-> TRUE],
      [name |-> "corrupt", w |-> 0,    h |-> 0, decodes |-> FALSE] }

\* largest value of a colour channel of ImageData
CHANNEL_MAX == 255

\* texts of the character box, as sequences of characters
CharInputs == { <<"0", "1">>, <<"A", "B">> }

\* positions of the resolution slider the user moves to
SliderValues ==
    { v \in SLIDER_MIN..SLIDER_MAX :
          /\ (v - SLIDER_MIN) % SLIDER_STEP = 0
          /\ (v - SLIDER_MIN) \div SLIDER_STEP <= MaxSliderSteps }

(***************************************************************************)
(* The pipeline: lines 66-103 of generateBinaryArt.                       *)
(***************************************************************************)
IsWhiteSpace(c) == c \in {" ", "\t", "\n"}

\* String.prototype.trim on a sequence of characters
Trim(str) ==
    IF \A i \in 1..Len(str) : IsWhiteSpace(str[i]) THEN <<>>
    ELSE LET first == CHOOSE i \in 1..Len(str) :
                          /\ ~IsWhiteSpace(str[i])
                          /\ \A j \in 1..(i - 1) : IsWhiteSpace(str[j])
             last  == CHOOSE i \in 1..Len(str) :
                          /\ ~IsWhiteSpace(str[i])
                          /\ \A j \in (i + 1)..Len(str) : IsWhiteSpace(str[j])
         IN  SubSeq(str, first, last)

\* the character box taken as it is, white space included
CustomCharactersUntrimmed(charInput) ==
    IF Len(charInput) > 0 THEN charInput ELSE <<"0", "1">>

\* lines 66-68
CustomCharacters(charInput) ==
    LET charString == Trim(charInput)
    IN  IF Len(charString) > 0 THEN charString ELSE <<"0", "1">>

\* lines 70-71: Math.floor(resolution * (naturalHeight / naturalWidth) * 0.55)
\* in double arithmetic.  0/0 is NaN and h/0 is Infinity: not finite.
ResolutionHeight(resolution, W, H) ==
    IF W = 0 THEN [finite |-> FALSE, value |-> 0]
    ELSE IF H = 0 THEN [finite |-> TRUE, value |-> 0]
    ELSE [finite |-> TRUE,
          value  |-> FFloor(FMul(FMulInt(FDiv(H, W), resolution),
                                 AspectCorrection))]

\* WebIDL conversion of a number to (unsigned) long: NaN and Infinity give 0
ToLong(n) == IF n.finite THEN n.value ELSE 0

\* The pixel of the source image at (sx, sy): a horizontal ramp in red, a
\* vertical ramp in green, the reverse horizontal ramp in blue.
SourcePixel(img, sx, sy) ==
    LET v == (sx * CHANNEL_MAX) \div Max(img.w - 1, 1)
        u == (sy * CHANNEL_MAX) \div Max(img.h - 1, 1)
    IN  <<v, u, CHANNEL_MAX - v>>

\* line 79, ctx.drawImage(originalImage, 0, 0, cw, ch): the pixel of the
\* cw x ch canvas at (x, y), the source scaled to the canvas
SampledPixel(img, cw, ch, x, y) ==
    SourcePixel(img, (x * img.w) \div cw, (y * img.h) \div ch)

\* lines 81-82, ctx.getImageData(0, 0, sw, sh).data, one entry per pixel
\* (the RGB of data[4k .. 4k+2]), k from 0, row after row
ImageDataAt(cv, k) ==
    IF cv.drawn = NoImage THEN <<0, 0, 0>>
    ELSE SampledPixel(cv.drawn, cv.width, cv.height,
                      k % cv.width, k \div cv.width)

\* a getImageData that returns data whatever the size asked for
GetImageDataNeverThrows(sw, sh) == {}

\* line 81, ctx.getImageData(0, 0, sw, sh): the exceptions it can throw.  A
\* zero sw or sh is an IndexSizeError.  A height that is not finite is a
\* TypeError where the argument is an [EnforceRange] long, and is converted
\* to 0 (an IndexSizeError) elsewhere.  The empty set: it returns the data.
IndexSizeError == "IndexSizeError"
TypeError == "TypeError"
GetImageDataErrors(sw, sh) ==
    IF ~sh.finite THEN {TypeError, IndexSizeError}
    ELSE IF sw = 0 \/ sh.value = 0 THEN {IndexSizeError}
    ELSE {}

\* line 88, in thousandths: 0.299 r + 0.587 g + 0.114 b
Luminance(px) == 299 * px[1] + 587 * px[2] + 114 * px[3]
LUMINANCE_SCALE == 1000
\* 255 in thousandths
FullLuminance == CHANNEL_MAX * LUMINANCE_SCALE

\* inversion about 256, the number of channel values, instead of 255
EffectiveLuminanceAbout256(luminance, invertToggle) ==
    IF invertToggle THEN 256 * LUMINANCE_SCALE - luminance ELSE luminance

\* line 89
EffectiveLuminance(luminance, invertToggle) ==
    IF invertToggle THEN FullLuminance - luminance ELSE luminance

\* the weight taken from the distance to white: heavier for darker pixels
FinalWeightDescending(effectiveLuminance) ==
    LET continuousWeight ==
            MIN_WEIGHT * FullLuminance
                + (FullLuminance - effectiveLuminance) * WEIGHT_RANGE
        clamped == Max(MIN_WEIGHT * FullLuminance,
                       Min(MAX_WEIGHT * FullLuminance, continuousWeight))
    IN  (2 * clamped + FullLuminance) \div (2 * FullLuminance)

\* the weight cut off to an integer instead of rounded
FinalWeightTruncated(effectiveLuminance) ==
    LET continuousWeight ==
            MIN_WEIGHT * FullLuminance + effectiveLuminance * WEIGHT_RANGE
        clamped == Max(MIN_WEIGHT * FullLuminance,
                       Min(MAX_WEIGHT * FullLuminance, continuousWeight))
    IN  clamped \div FullLuminance

\* lines 91-92: continuousWeight as a fraction over FullLuminance, clamped,
\* then Math.round (to nearest, halves up)
FinalWeight(effectiveLuminance) ==
    LET continuousWeight ==
            MIN_WEIGHT * FullLuminance + effectiveLuminance * WEIGHT_RANGE
        clamped == Max(MIN_WEIGHT * FullLuminance,
                       Min(MAX_WEIGHT * FullLuminance, continuousWeight))
    IN  (2 * clamped + FullLuminance) \div (2 * FullLuminance)

\* the opacity without its floor of 0.1
OpacityWithoutFloor(effectiveLuminance) ==
    (2 * effectiveLuminance + CHANNEL_MAX) \div (2 * CHANNEL_MAX)

\* lines 94 and 100: Math.max(0.1, effectiveLuminance / 255.0).toFixed(3),
\* in thousandths
OPACITY_FLOOR == 100
Opacity(effectiveLuminance) ==
    LET opacity == Max(OPACITY_FLOOR * CHANNEL_MAX, effectiveLuminance)
    IN  (2 * opacity + CHANNEL_MAX) \div (2 * CHANNEL_MAX)

\* levels of size 255 / 14 instead of 256 / 14
CharLevelIndexOver255(effectiveLuminance) ==
    LET charLevelIndex ==
            (effectiveLuminance * NUM_CHAR_LEVELS)
                \div (CHANNEL_MAX * LUMINANCE_SCALE)
    IN  Max(0, Min(NUM_CHAR_LEVELS - 1, charLevelIndex))

\* lines 96-97: Math.floor(effectiveLuminance / (256 / 14)), clamped
CHANNEL_LEVELS == 256
CharLevelIndex(effectiveLuminance) ==
    LET charLevelIndex ==
            (effectiveLuminance * NUM_CHAR_LEVELS)
                \div (CHANNEL_LEVELS * LUMINANCE_SCALE)
    IN  Max(0, Min(NUM_CHAR_LEVELS - 1, charLevelIndex))

\* line 98
DensityChar(customCharacters, charLevelIndex) ==
    customCharacters[(charLevelIndex % Len(customCharacters)) + 1]

\* lines 88-100: the span written for one pixel
GlyphCell(px, invertToggle, customCharacters) ==
    LET effectiveLuminance == EffectiveLuminance(Luminance(px), invertToggle)
    IN  [char    |-> DensityChar(customCharacters,
                                 CharLevelIndex(effectiveLuminance)),
         weight  |-> FinalWeight(effectiveLuminance),
         opacity |-> Opacity(effectiveLuminance)]

\* rows taken one pixel shorter than the canvas is wide
PixelIndexShortStride(x, y, resolution) == y * (resolution - 1) + x

\* line 87: the pixel index read for column x of row y
PixelIndex(x, y, resolution) == y * resolution + x

\* a document cut short: the last row is missing
OutputHTMLWithoutLastRow(cv, invertToggle, customCharacters) ==
    [y \in 1..(cv.height - 1) |->
        [x \in 1..cv.width |->
            GlyphCell(ImageDataAt(cv, y * cv.width + x - cv.width - 1),
                      invertToggle, customCharacters)]]

\* lines 83-103: outputHTML, as the rows of spans it holds (each row ends
\* with a newline)
OutputHTML(cv, invertToggle, customCharacters) ==
    [y \in 1..cv.height |->
        [x \in 1..cv.width |->
            GlyphCell(ImageDataAt(cv, PixelIndex(x - 1, y - 1, cv.width)),
                      invertToggle, customCharacters)]]

(***************************************************************************)
(* The component's state.                                                  *)
(***************************************************************************)
VARIABLES
    originalImage,   \* useState: the decoded image, or NoImage
    charInput,       \* useState: text of the character box
    invertToggle,    \* useState
    resolution,      \* useState: slider value
    artOutputHtml,   \* useState: what the output pane shows
    isGenerated,     \* useState
    isGenerating,    \* useState
    statusMessage,   \* useState
    canvas,          \* canvasRef.current: size and what was drawn on it
    pending,         \* generation passes scheduled by setTimeout, in order
    loading,         \* files being read and decoded
    exported,        \* the last document handed to a download or print window
    edits,           \* number of changes made to the settings so far
    probe,           \* input of a single pipeline stage
    outcome          \* what the stage made of it

componentVars == << originalImage, charInput, invertToggle, resolution,
                    artOutputHtml, isGenerated, isGenerating, statusMessage,
                    canvas, pending, loading, exported, edits >>
probeVars == << probe, outcome >>
vars == << componentVars, probeVars >>

\* the value of artOutputHtml: a message paragraph, or generated art
Message(text) == [kind |-> "message", text |-> text, rows |-> <<>>]
Art(rows)     == [kind |-> "art", text |-> "", rows |-> rows]

InitialMessage ==
    Message("Upload an image and press 'Generate Binary Art' to see your artwork here.")
ReadyMessage ==
    Message("Ready to generate art. Press the button below.")
AnalyzingMessage ==
    Message("Analyzing image and generating characters...")

Status(text, type) == [text |-> text, type |-> type]
NoStatus == Status("", "none")

NoExport == [kind |-> "none", text |-> "", rows |-> <<>>]
NoProbe == [kind |-> "none", pixel |-> <<0, 0, 0>>, invert |-> FALSE,
            chars |-> <<>>, resolution |-> 0, w |-> 0, h |-> 0]
NoOutcome == [kind |-> "none", cell |-> <<>>, level |-> 0, height |-> 0]

\* size of a canvas element nobody has resized
CANVAS_DEFAULT_WIDTH == 300
CANVAS_DEFAULT_HEIGHT == 150

ComponentInit ==
    /\ originalImage = NoImage
    /\ charInput = <<"0", "1">>
    /\ invertToggle = FALSE
    /\ resolution = DEFAULT_RESOLUTION
    /\ artOutputHtml = InitialMessage
    /\ isGenerated = FALSE
    /\ isGenerating = FALSE
    /\ statusMessage = NoStatus
    /\ canvas = [width |-> CANVAS_DEFAULT_WIDTH,
                 height |-> CANVAS_DEFAULT_HEIGHT]
    /\ pending = <<>>
    /\ loading = {}
    /\ exported = NoExport
    /\ edits = 0

Init ==
    /\ ComponentInit
    /\ probe = NoProbe
    /\ outcome = NoOutcome

(***************************************************************************)
(* Status messages (showStatus).                                           *)
(***************************************************************************)
ImageLoadedStatus ==
    Status("Image loaded successfully. Adjust settings and generate.",
           "success")
ImageErrorStatus ==
    Status("Error loading image. Please try a different file.", "error")
UploadFirstStatus == Status("Please upload an image first.", "error")
GeneratingStatus == Status("Generating... please wait.", "success")
ArtGeneratedStatus ==
    Status("Art generated! You can now download the file.", "success")
GenerateFirstStatus ==
    Status("Please generate art before downloading.", "error")
PopupBlockedStatus ==
    Status("Popup blocked. Please allow popups to save as PDF.", "error")
\* `Failed to generate art: ${errorMessage}`
FailedStatus(errorMessage) ==
    Status("Failed to generate art: " \o errorMessage, "error")
NoContextError == "Could not get canvas context"

(***************************************************************************)
(* Image upload: handleImageUpload starts a FileReader and an Image; the   *)
(* outcome arrives later in img.onload or img.onerror.                     *)
(***************************************************************************)
HandleImageUpload(file) ==
    /\ Cardinality(loading) < MaxLoads
    /\ loading' = loading \cup {file}
    /\ UNCHANGED << originalImage, charInput, invertToggle, resolution,
                    artOutputHtml, isGenerated, isGenerating, statusMessage,
                    canvas, pending, exported, edits, probeVars >>

ImgOnload(file) ==
    /\ file \in loading
    /\ file.decodes
    /\ loading' = loading \ {file}
    /\ originalImage' = file
    /\ isGenerated' = FALSE
    /\ statusMessage' = ImageLoadedStatus
    /\ artOutputHtml' = ReadyMessage
    /\ UNCHANGED << charInput, invertToggle, resolution, isGenerating,
                    canvas, pending, exported, edits, probeVars >>

ImgOnerror(file) ==
    /\ file \in loading
    /\ ~file.decodes
    /\ loading' = loading \ {file}
    /\ originalImage' = NoImage
    /\ statusMessage' = ImageErrorStatus
    /\ UNCHANGED << charInput, invertToggle, resolution, artOutputHtml,
                    isGenerated, isGenerating, canvas, pending, exported,
                    edits, probeVars >>

(***************************************************************************)
(* The settings: the onChange handlers of lines 169, 173 and 178.          *)
(***************************************************************************)
SetCharInput(text) ==
    /\ edits < MaxEdits
    /\ edits' = edits + 1
    /\ text # charInput
    /\ charInput' = text
    /\ UNCHANGED << originalImage, invertToggle, resolution, artOutputHtml,
                    isGenerated, isGenerating, statusMessage, canvas,
                    pending, loading, exported, probeVars >>

SetInvertToggle ==
    /\ edits < MaxEdits
    /\ edits' = edits + 1
    /\ invertToggle' = ~invertToggle
    /\ UNCHANGED << originalImage, charInput, resolution, artOutputHtml,
                    isGenerated, isGenerating, statusMessage, canvas,
                    pending, loading, exported, probeVars >>

SetResolution(value) ==
    /\ edits < MaxEdits
    /\ edits' = edits + 1
    /\ value # resolution
    /\ resolution' = value
    /\ UNCHANGED << originalImage, charInput, invertToggle, artOutputHtml,
                    isGenerated, isGenerating, statusMessage, canvas,
                    pending, loading, exported, probeVars >>

(***************************************************************************)
(* Generation: generateBinaryArt runs on a click of the Generate button    *)
(* and defers the pass with setTimeout; the pass works on the values the   *)
(* callback closed over when the button was clicked.                       *)
(***************************************************************************)
\* a Generate button that stays enabled while a pass is outstanding
GenerateDisabledWithoutImageOnly == originalImage = NoImage

\* line 182: disabled={!originalImage || isGenerating}
GenerateDisabled == originalImage = NoImage \/ isGenerating

\* lines 53-64 and 115
GenerateBinaryArt ==
    IF originalImage = NoImage
    THEN /\ statusMessage' = UploadFirstStatus
         /\ UNCHANGED << originalImage, charInput, invertToggle, resolution,
                         artOutputHtml, isGenerated, isGenerating, canvas,
                         pending, loading, exported, edits, probeVars >>
    ELSE /\ isGenerating' = TRUE
         /\ isGenerated' = FALSE
         /\ artOutputHtml' = AnalyzingMessage
         /\ statusMessage' = GeneratingStatus
         /\ pending' = Append(pending,
                              [originalImage |-> originalImage,
                               charInput     |-> charInput,
                               invertToggle  |-> invertToggle,
                               resolution    |-> resolution])
         /\ UNCHANGED << originalImage, charInput, invertToggle, resolution,
                         canvas, loading, exported, edits, probeVars >>

GenerateClick ==
    /\ ~GenerateDisabled
    /\ GenerateBinaryArt

\* lines 70-71 for the image and the resolution of a pass
RunHeight(run) ==
    ResolutionHeight(run.resolution, run.originalImage.w, run.originalImage.h)

\* a pass that draws the image only when it had to resize the canvas
CanvasDrawnWhenResized(run, resolutionHeight) ==
    [width  |-> run.resolution,
     height |-> ToLong(resolutionHeight),
     drawn  |-> IF /\ canvas.width = run.resolution
                   /\ canvas.height = ToLong(resolutionHeight)
                THEN NoImage ELSE run.originalImage]

\* lines 73-79: the canvas after it was resized (which clears it) and the
\* image drawn; drawImage draws nothing when a size is not finite or the
\* image has no natural size
CanvasAfterDraw(run, resolutionHeight) ==
    [width  |-> run.resolution,
     height |-> ToLong(resolutionHeight),
     drawn  |-> IF /\ resolutionHeight.finite
                   /\ run.originalImage.w > 0
                   /\ run.originalImage.h > 0
                THEN run.originalImage ELSE NoImage]

\* a pass whose setIsGenerating(false) sits at the end of the try block
\* instead of in a finally
GenerationPassWithoutFinally(ctx) ==
    /\ pending # <<>>
    /\ IF ~ctx
       THEN /\ statusMessage' = FailedStatus(NoContextError)
            /\ UNCHANGED << canvas, artOutputHtml, isGenerated,
                            isGenerating >>
       ELSE
       \E run \in { Head(pending) } :
       \E resolutionHeight \in { RunHeight(run) } :
       \E cv \in { CanvasAfterDraw(run, resolutionHeight) } :
       \E errors \in { GetImageDataErrors(run.resolution, resolutionHeight) } :
           IF errors # {}
           THEN /\ canvas' = [width |-> cv.width, height |-> cv.height]
                /\ \E errorMessage \in errors :
                       statusMessage' = FailedStatus(errorMessage)
                /\ UNCHANGED << artOutputHtml, isGenerated, isGenerating >>
           ELSE /\ canvas' = [width |-> cv.width, height |-> cv.height]
                /\ artOutputHtml' =
                       Art(OutputHTML(cv, run.invertToggle,
                                      CustomCharacters(run.charInput)))
                /\ isGenerated' = TRUE
                /\ statusMessage' = ArtGeneratedStatus
                /\ isGenerating' = FALSE
    /\ pending' = Tail(pending)
    /\ UNCHANGED << originalImage, charInput, invertToggle, resolution,
                    loading, exported, edits, probeVars >>

\* lines 64-115: the deferred pass.  ctx is what canvas.getContext('2d')
\* returned: a context (TRUE) or null (FALSE).
GenerationPass(ctx) ==
    /\ pending # <<>>
    /\ IF ~ctx
       THEN \* line 75 throws
            /\ statusMessage' = FailedStatus(NoContextError)
            /\ UNCHANGED << canvas, artOutputHtml, isGenerated >>
       ELSE \* lines 66-71 have no effect of their own; their values are
            \* used from line 77 on
       \E run \in { Head(pending) } :
       \E resolutionHeight \in { RunHeight(run) } :
       \E cv \in { CanvasAfterDraw(run, resolutionHeight) } :
       \E errors \in { GetImageDataErrors(run.resolution, resolutionHeight) } :
           IF errors # {}
           THEN \* line 81 throws
                /\ canvas' = [width |-> cv.width, height |-> cv.height]
                /\ \E errorMessage \in errors :
                       statusMessage' = FailedStatus(errorMessage)
                /\ UNCHANGED << artOutputHtml, isGenerated >>
           ELSE /\ canvas' = [width |-> cv.width, height |-> cv.height]
                /\ artOutputHtml' =
                       Art(OutputHTML(cv, run.invertToggle,
                                      CustomCharacters(run.charInput)))
                /\ isGenerated' = TRUE
                /\ statusMessage' = ArtGeneratedStatus
    /\ isGenerating' = FALSE
    /\ pending' = Tail(pending)
    /\ UNCHANGED << originalImage, charInput, invertToggle, resolution,
                    loading, exported, edits, probeVars >>

(***************************************************************************)
(* Export: handleDownload, on a click of one of the two download buttons.  *)
(* opens: whether window.open returned a window.                           *)
(***************************************************************************)
\* lines 186-187: disabled={!isGenerated}
DownloadDisabled == ~isGenerated

\* a blocked popup that throws the document away
PopupBlockedDiscardsDocument ==
    /\ statusMessage' = PopupBlockedStatus
    /\ artOutputHtml' = InitialMessage
    /\ isGenerated' = FALSE
    /\ UNCHANGED exported

\* line 153: the popup was blocked
PopupBlocked ==
    /\ statusMessage' = PopupBlockedStatus
    /\ UNCHANGED << artOutputHtml, isGenerated, exported >>

\* lines 118-156
HandleDownload(type, opens) ==
    /\ IF ~isGenerated
       THEN /\ statusMessage' = GenerateFirstStatus
            /\ UNCHANGED << artOutputHtml, isGenerated, exported >>
       ELSE IF type = "html"
       THEN /\ exported' = artOutputHtml
            /\ UNCHANGED << artOutputHtml, isGenerated, statusMessage >>
       ELSE IF opens
       THEN /\ exported' = artOutputHtml
            /\ UNCHANGED << artOutputHtml, isGenerated, statusMessage >>
       ELSE PopupBlocked
    /\ UNCHANGED << originalImage, charInput, invertToggle, resolution,
                    isGenerating, canvas, pending, loading, edits, probeVars >>

DownloadClick(type, opens) ==
    /\ ~DownloadDisabled
    /\ HandleDownload(type, opens)

Next ==
    \/ \E file \in Files : HandleImageUpload(file)
    \/ \E file \in Files : ImgOnload(file)
    \/ \E file \in Files : ImgOnerror(file)
    \/ \E text \in CharInputs : SetCharInput(text)
    \/ SetInvertToggle
    \/ \E value \in SliderValues : SetResolution(value)
    \/ GenerateClick
    \/ \E ctx \in BOOLEAN : GenerationPass(ctx)
    \/ DownloadClick("html", TRUE)
    \/ \E opens \in BOOLEAN : DownloadClick("pdf", opens)

Spec == Init /\ [][Next]_vars

(***************************************************************************)
(* The pipeline stages on their own: one pixel through lines 88-100, one   *)
(* image size through lines 70-71.                                         *)
(***************************************************************************)
\* largest natural height among the image sizes tried
MaxProbeHeight == 100

\* texts of the character box tried, as sequences of characters
ProbeCharInputs ==
    { <<"0", "1">>, <<"A", "B">>, <<"#">>, <<" ", "x", "y", "z", " ">>,
      <<>>, <<" ", "\t">> }

\* pixels tried: the grays and the pure reds, greens and blues
ProbePixels ==
    UNION { { <<v, v, v>>, <<v, 0, 0>>, <<0, v, 0>>, <<0, 0, v>> } :
            v \in 0..CHANNEL_MAX }

PixelProbes ==
    { [kind |-> "pixel", pixel |-> px, invert |-> inv, chars |-> chars,
       resolution |-> 0, w |-> 0, h |-> 0] :
      px \in ProbePixels, inv \in BOOLEAN, chars \in ProbeCharInputs }

\* natural widths tried
ProbeWidths == { 55, 100, 200, 1000 }

SizeProbes ==
    { [kind |-> "size", pixel |-> <<0, 0, 0>>, invert |-> FALSE,
       chars |-> <<>>, resolution |-> r, w |-> w, h |-> h] :
      r \in { SLIDER_MIN, DEFAULT_RESOLUTION }, w \in ProbeWidths,
      h \in 1..MaxProbeHeight }

\* whole passes tried: an image that has just been loaded, with the settings
\* the user has made since
DocumentProbes ==
    { [kind |-> "document", pixel |-> <<0, 0, 0>>, invert |-> inv,
       chars |-> chars, resolution |-> r, w |-> file.w, h |-> file.h] :
      file \in { f \in Files : f.decodes /\ f.w > 0 },
      inv \in BOOLEAN, chars \in ProbeCharInputs,
      r \in SliderValues \cup { DEFAULT_RESOLUTION } }

\* sizes an earlier pass can have left the canvas with
ProbeCanvases ==
    { [width |-> CANVAS_DEFAULT_WIDTH, height |-> CANVAS_DEFAULT_HEIGHT],
      [width |-> SLIDER_MIN, height |-> 1],
      [width |-> DEFAULT_RESOLUTION, height |-> 0] }

\* the component after img.onload of the probe's image, with the probe's
\* settings
LoadedInit ==
    /\ originalImage \in { f \in Files : f.w = probe.w /\ f.h = probe.h
                                          /\ f.decodes }
    /\ charInput = probe.chars
    /\ invertToggle = probe.invert
    /\ resolution = probe.resolution
    /\ artOutputHtml = ReadyMessage
    /\ isGenerated = FALSE
    /\ isGenerating = FALSE
    /\ statusMessage = ImageLoadedStatus
    /\ canvas \in ProbeCanvases
    /\ pending = <<>>
    /\ loading = {}
    /\ exported = NoExport
    /\ edits = 0

PipelineInit ==
    /\ probe \in PixelProbes \cup SizeProbes \cup DocumentProbes
    /\ outcome = NoOutcome
    /\ IF probe.kind = "document" THEN LoadedInit ELSE ComponentInit

\* lines 88-100 on the pixel of the probe
MapPixel ==
    /\ probe.kind = "pixel"
    /\ outcome = NoOutcome
    /\ outcome' =
           [kind   |-> "glyph",
            cell   |-> GlyphCell(probe.pixel, probe.invert,
                                 CustomCharacters(probe.chars)),
            level  |-> CharLevelIndex(
                           EffectiveLuminance(Luminance(probe.pixel),
                                              probe.invert)),
            height |-> 0]
    /\ UNCHANGED << componentVars, probe >>

\* lines 70-71 on the image size of the probe
ComputeHeight ==
    /\ probe.kind = "size"
    /\ outcome = NoOutcome
    /\ outcome' =
           [kind   |-> "height",
            cell   |-> <<>>,
            level  |-> 0,
            height |-> ResolutionHeight(probe.resolution, probe.w,
                                        probe.h).value]
    /\ UNCHANGED << componentVars, probe >>

\* the stages, and for whole passes the handlers of the component: the
\* Generate button, the deferred pass and the HTML download
PipelineNext ==
    \/ MapPixel
    \/ ComputeHeight
    \/ GenerateClick /\ probe.kind = "document"
    \/ \E ctx \in BOOLEAN : GenerationPass(ctx) /\ probe.kind = "document"
    \/ DownloadClick("html", TRUE) /\ probe.kind = "document"

PipelineSpec == PipelineInit /\ [][PipelineNext]_vars

(***************************************************************************)
(* Properties of the component (Spec) and of the pipeline (PipelineSpec).  *)
(***************************************************************************)
\* a step in which the deferred pass at the head of the queue ran
PassStep == pending # <<>> /\ pending' = Tail(pending)

\* floor(resolution * (h / w) * 0.55) is 0 for an image of positive size
ZeroHeightRun(run) ==
    /\ run.originalImage.w > 0
    /\ run.originalImage.h > 0
    /\ run.resolution * run.originalImage.h * ASPECT_NUM
           < ASPECT_DEN * run.originalImage.w

\* C1: a generation pass on an image of positive size whose target height
\* computes to 0 ends in a failure reported on the status line; it does not
\* publish a document (a blank one included) and leaves isGenerated false.
C1_ZeroHeightFails ==
    [][ (PassStep /\ ZeroHeightRun(Head(pending)))
            => /\ statusMessage'.type = "error"
               /\ ~isGenerated'
               /\ artOutputHtml'.kind = "message" ]_vars

\* C1, its case: the pass on the 1000 x 1 image has failed on an empty canvas
C1_ZeroHeightFailed ==
    /\ originalImage.name = "strip"
    /\ canvas.height = 0
    /\ canvas.width = resolution
    /\ statusMessage = FailedStatus(IndexSizeError)
    /\ ~isGenerated
    /\ artOutputHtml = AnalyzingMessage
    /\ pending = <<>>

\* C2 as the specification states it: a pass whose image has a width or a
\* height <= 0, or whose resolution is <= 0, is turned down by a check of the
\* dimensions before any sampling: the canvas is neither resized nor drawn
\* on, and the failure reported is not an exception of getImageData.
C2_DimensionsValidated ==
    [][ (/\ PassStep
         /\ \/ Head(pending).originalImage.w <= 0
            \/ Head(pending).originalImage.h <= 0
            \/ Head(pending).resolution <= 0)
            => /\ canvas' = canvas
               /\ ~isGenerated'
               /\ statusMessage'.type = "error"
               /\ statusMessage' \notin { FailedStatus(IndexSizeError),
                                          FailedStatus(TypeError) } ]_vars

\* C3 as the specification states it: while the image stays the same, a
\* published document stays published; a step either keeps it or replaces
\* it by the document of a successful run.
C3_ReplacedOnlyBySuccess ==
    [][ (isGenerated /\ originalImage' = originalImage)
            => /\ isGenerated'
               /\ artOutputHtml'.kind = "art" ]_vars

\* the rows of a document are those of a whole canvas
CompleteDocument(doc) ==
    /\ doc.kind = "art"
    /\ Len(doc.rows) > 0
    /\ \A y \in 1..Len(doc.rows) : Len(doc.rows[y]) = Len(doc.rows[1])

C4_PlaceholderOrComplete ==
    /\ isGenerated <=> artOutputHtml.kind = "art"
    /\ ~isGenerated => artOutputHtml.rows = <<>>
    /\ isGenerated =>
           /\ CompleteDocument(artOutputHtml)
           /\ Len(artOutputHtml.rows) = canvas.height
           /\ Len(artOutputHtml.rows[1]) = canvas.width
    /\ (/\ statusMessage.type = "error"
        /\ statusMessage \notin { PopupBlockedStatus, ImageErrorStatus })
           => ~isGenerated
    /\ exported # NoExport => CompleteDocument(exported)

\* C4: what the output pane and handleDownload offer is always a placeholder
\* message or the complete document of a successful pass; after a failed
\* pass isGenerated is false and no cell is published; handleDownload hands
\* out nothing while isGenerated is false.
C4_NoPartialDocument ==
    /\ []C4_PlaceholderOrComplete
    /\ [][ ~isGenerated => exported' = exported ]_vars

\* C4, its case: a document was exported, and a later pass failed
C4_FailedAfterExport ==
    /\ statusMessage = FailedStatus(IndexSizeError)
    /\ ~isGenerated
    /\ artOutputHtml.kind = "message"
    /\ exported # NoExport

\* C5: at most one generation pass is scheduled at any time, isGenerating
\* says whether one is, and while it is the Generate button takes no
\* request.
C5_SingleFlight ==
    /\ Len(pending) <= 1
    /\ isGenerating <=> pending # <<>>
    /\ isGenerating => GenerateDisabled

\* C5, its case: an image is loaded and a pass is outstanding
C5_RequestOutstanding ==
    /\ originalImage # NoImage
    /\ isGenerating
    /\ Len(pending) = 1
    /\ GenerateDisabled

\* C6: the step in which a blocked print window is reported sets an error
\* status and changes neither artOutputHtml nor isGenerated nor what was
\* exported before; every export hands out the document on display.
C6_PopupBlockedKeepsDocument ==
    [][ /\ (statusMessage' = PopupBlockedStatus
               /\ statusMessage # PopupBlockedStatus)
            => /\ isGenerated
               /\ statusMessage'.type = "error"
               /\ artOutputHtml' = artOutputHtml
               /\ isGenerated' = isGenerated
               /\ exported' = exported
        /\ exported' # exported
            => /\ exported' = artOutputHtml
               /\ artOutputHtml' = artOutputHtml ]_vars

\* C6, its case: the popup was blocked, and the document on display is the
\* one a download handed out
C6_BlockedAndExported ==
    /\ statusMessage = PopupBlockedStatus
    /\ isGenerated
    /\ exported = artOutputHtml

\* C7 as the specification states it: the height computed for an image of
\* natural size w x h at a resolution is floor(resolution * (h / w) * 0.55),
\* the floor of the exact quotient resolution * h * 55 / (100 * w).
C7_HeightIsFloorOfProduct ==
    outcome.kind = "height"
        => outcome.height =
               (probe.resolution * probe.h * ASPECT_NUM)
                   \div (ASPECT_DEN * probe.w)

\* C8: the document a successful pass publishes has as many rows as the
\* canvas of the pass is high (the height computed in lines 70-71), each row
\* has as many cells as the canvas is wide (the resolution), and the cell in
\* row y, column x is the glyph of the pixel sampled at (x, y).
C8_RowMajorDocument ==
    [][ (PassStep /\ isGenerated')
            => LET run  == Head(pending)
                   rows == artOutputHtml'.rows
                   w    == canvas'.width
                   h    == canvas'.height
               IN  /\ w = run.resolution
                   /\ h = RunHeight(run).value
                   /\ Len(rows) = h
                   /\ \A y \in 1..h :
                          /\ Len(rows[y]) = w
                          /\ \A x \in 1..w :
                                 rows[y][x] =
                                     GlyphCell(
                                         SampledPixel(run.originalImage, w, h,
                                                      x - 1, y - 1),
                                         run.invertToggle,
                                         CustomCharacters(run.charInput)) ]_vars

\* C8, its case: a document of several rows whose corner cells differ
C8_DocumentPublished ==
    /\ isGenerated
    /\ canvas.height > 1
    /\ Len(artOutputHtml.rows) = canvas.height
    /\ Len(artOutputHtml.rows[1]) = canvas.width
    /\ artOutputHtml.rows[1][1] # artOutputHtml.rows[canvas.height][1]
    /\ artOutputHtml.rows[1][1] # artOutputHtml.rows[1][canvas.width]

\* C9: the level of a pixel is floor(effective / (256 / 14)), it lies in
\* 0..13, and the character of its cell is the one at position
\* level mod length of the character cycle; with the cycle "AB" even levels
\* give "A" and odd levels give "B".
C9_LevelSelectsCharacter ==
    outcome.kind = "glyph"
        => LET effective ==
                   EffectiveLuminance(Luminance(probe.pixel), probe.invert)
               cycle == CustomCharacters(probe.chars)
               level == outcome.level
           IN  /\ level \in 0..13
               /\ level * CHANNEL_LEVELS * LUMINANCE_SCALE
                      <= effective * NUM_CHAR_LEVELS
               /\ effective * NUM_CHAR_LEVELS
                      < (level + 1) * CHANNEL_LEVELS * LUMINANCE_SCALE
               /\ (level % Len(cycle)) + 1 \in 1..Len(cycle)
               /\ outcome.cell.char = cycle[(level % Len(cycle)) + 1]
               /\ probe.chars = <<"A", "B">>
                      => outcome.cell.char =
                             IF level % 2 = 0 THEN "A" ELSE "B"

\* C9, its case: the brightest level with the cycle "AB"
C9_TopLevelIsB ==
    /\ outcome.kind = "glyph"
    /\ probe.chars = <<"A", "B">>
    /\ outcome.level = 13
    /\ outcome.cell.char = "B"

\* the pixel whose luminance is 255 minus that of px
Complement(px) ==
    << CHANNEL_MAX - px[1], CHANNEL_MAX - px[2], CHANNEL_MAX - px[3] >>

\* C10: the cell of a pixel is the cell of the pixel of complementary
\* luminance (255 - x for x) under the opposite setting of invert and the
\* same character cycle.
C10_InvertSymmetry ==
    outcome.kind = "glyph"
        => outcome.cell = GlyphCell(Complement(probe.pixel), ~probe.invert,
                                    CustomCharacters(probe.chars))

\* C10, its case: a black pixel, inverted, is the heaviest glyph
C10_InvertedBlack ==
    /\ outcome.kind = "glyph"
    /\ probe.invert
    /\ probe.pixel = <<0, 0, 0>>
    /\ outcome.cell.weight = MAX_WEIGHT
    /\ outcome.level = NUM_CHAR_LEVELS - 1

\* the document a pass publishes for an image and the three settings
DocumentOf(image, chars, invert, width) ==
    LET run == [originalImage |-> image, charInput |-> chars,
                invertToggle |-> invert, resolution |-> width]
    IN  Art(OutputHTML(CanvasAfterDraw(run, RunHeight(run)), invert,
                       CustomCharacters(chars)))

\* C11: with a character box that is empty or holds white space only, the
\* document a pass publishes is the document it publishes for the character
\* box "01", image, invert flag and resolution being the same.
C11_BlankCycleIsZeroOne ==
    (/\ probe.kind = "document"
     /\ isGenerated
     /\ \A i \in 1..Len(charInput) : charInput[i] \in {" ", "\t", "\n"})
        => artOutputHtml =
               DocumentOf(originalImage, <<"0", "1">>, invertToggle,
                          resolution)

\* C11, its case: a document generated with a box of a blank and a tab
C11_BlankBoxGenerated ==
    /\ probe.kind = "document"
    /\ isGenerated
    /\ charInput = <<" ", "\t">>
    /\ artOutputHtml.rows[1][1].char \in {"0", "1"}
    /\ \E x \in 1..resolution : artOutputHtml.rows[1][x].char = "1"

\* the effective luminance of the pixel probe, in thousandths
ProbeEffective == EffectiveLuminance(Luminance(probe.pixel), probe.invert)

\* C12: the weight of a cell is round(300 + (effective / 255) * 400), halves
\* rounded up; it is an integer in 300..700, it is 300 at effective 0 and 700
\* at effective 255, and rounding before clamping gives the same weight.
C12_WeightIsRounded ==
    outcome.kind = "glyph"
        => LET weight == outcome.cell.weight
               \* 2 * 255 * (300 + (effective / 255) * 400), in thousandths
               twice == 2 * (300 * 255000 + ProbeEffective * 400)
               rounded == (twice + 255000) \div (2 * 255000)
           IN  /\ weight \in 300..700
               /\ 2 * 255000 * weight <= twice + 255000
               /\ twice + 255000 < 2 * 255000 * (weight + 1)
               /\ ProbeEffective = 0 => weight = 300
               /\ ProbeEffective = 255000 => weight = 700
               /\ weight = Max(300, Min(700, rounded))

\* C12, its case: the gray 1, whose weight 301.57 is rounded up
C12_RoundedUp ==
    /\ outcome.kind = "glyph"
    /\ probe.pixel = <<1, 1, 1>>
    /\ ~probe.invert
    /\ outcome.cell.weight = 302

\* C13: weights grow with the effective luminance: the weight of a cell is
\* at least the weight of every gray of lower effective luminance and at
\* most the weight of every gray of higher effective luminance.
C13_WeightMonotone ==
    outcome.kind = "glyph"
        => \A v \in 0..CHANNEL_MAX :
               LET other == Luminance(<<v, v, v>>)
               IN  /\ other < ProbeEffective
                       => FinalWeight(other) <= outcome.cell.weight
                   /\ ProbeEffective < other
                       => outcome.cell.weight <= FinalWeight(other)

\* C13, its case: a colour strictly between two grays of different weight
C13_BetweenGrays ==
    /\ outcome.kind = "glyph"
    /\ probe.pixel = <<200, 0, 0>>
    /\ ~probe.invert
    /\ FinalWeight(Luminance(<<59, 59, 59>>)) < outcome.cell.weight
    /\ outcome.cell.weight < FinalWeight(Luminance(<<61, 61, 61>>))

\* C14: the opacity written into a cell is max(0.1, effective / 255) rounded
\* to three decimals; it lies in 0.100..1.000 and is 0.100 for every
\* effective luminance of 25.5 or less.  (Opacities are in thousandths,
\* luminances in thousandths of a channel step.)
C14_OpacityIsRoundedMax ==
    outcome.kind = "glyph"
        => LET opacity == outcome.cell.opacity
               larger == Max(25500, ProbeEffective)
           IN  /\ opacity \in 100..1000
               /\ 255 * (2 * opacity - 1) <= 2 * larger
               /\ 2 * larger < 255 * (2 * opacity + 1)
               /\ ProbeEffective <= 25500 => opacity = 100

\* C14, its case: the gray 26, whose opacity 0.10196... is written as 0.102
C14_RoundedOpacity ==
    /\ outcome.kind = "glyph"
    /\ probe.pixel = <<26, 26, 26>>
    /\ ~probe.invert
    /\ outcome.cell.opacity = 102

\* C14 as the specification states it: the opacity of the cell is
\* max(0.1, effective / 255) itself.
C14_OpacityIsMax ==
    outcome.kind = "glyph"
        => 255 * outcome.cell.opacity = Max(25500, ProbeEffective)

\* C15: image and settings being the same, a pass that follows an earlier
\* pass publishes the document the earlier pass published (the one a
\* download handed out in between), whatever the earlier pass left on the
\* canvas.
C15_SameDocumentAgain ==
    [][ (/\ probe.kind = "document"
         /\ exported # NoExport
         /\ PassStep
         /\ isGenerated')
            => artOutputHtml' = exported ]_vars

\* C15, its case: the document of a first pass was handed out, and a second
\* pass on the same image and settings is under way
C15_SecondPassUnderWay ==
    /\ probe.kind = "document"
    /\ CompleteDocument(exported)
    /\ isGenerating
    /\ canvas.width = resolution
    /\ canvas.height = Len(exported.rows)

\* C16 as stated: a pass that publishes a document and sets isGenerated has
\* worked on the image that is loaded when it publishes.
C16_DocumentOfLoadedImage ==
    [][ (PassStep /\ isGenerated')
            => Head(pending).originalImage = originalImage' ]_vars

(***************************************************************************)
(* Progress.  A callback handed to setTimeout (line 64) is run by the      *)
(* event loop once its delay has passed; the user is under no obligation   *)
(* to do anything.                                                         *)
(***************************************************************************)
FairSpec == Spec /\ WF_vars(\E ctx \in BOOLEAN : GenerationPass(ctx))

\* C17: once isGenerating is true it becomes false again; the pass that
\* ends a request leaves isGenerating false and either a published document
\* with isGenerated true and a success status, or an error status with
\* nothing published; and while no image is loaded no step sets
\* isGenerating.
C17_RequestCompletes ==
    /\ isGenerating ~> ~isGenerating
    /\ [][ PassStep
               => /\ ~isGenerating'
                  /\ \/ /\ isGenerated'
                        /\ artOutputHtml'.kind = "art"
                        /\ statusMessage' = ArtGeneratedStatus
                     \/ /\ ~isGenerated'
                        /\ artOutputHtml'.kind = "message"
                        /\ statusMessage'.type = "error" ]_vars
    /\ [][ (originalImage = NoImage /\ ~isGenerating)
               => ~isGenerating' ]_vars

\* C17, its case: a request has ended in an error, and the Generate button
\* is enabled again
C17_FailedAndEnabledAgain ==
    /\ statusMessage = FailedStatus(NoContextError)
    /\ ~isGenerating
    /\ pending = <<>>
    /\ ~GenerateDisabled

=============================================================================
